---- MODULE Spec2Model ----
(***************************************************************************)
(* Hybrid search, caches and background tasks of the PDF chat application: *)
(*   utils/vector_utils.py     find_relevant_chunks, _keyword_search,      *)
(*                             hybrid_search, _merge_search_results        *)
(*   services/search_service.py    SearchService.search and its helpers    *)
(*   services/document_service.py  DocumentService.search_documents        *)
(*   utils/cache_utils.py      SessionCache, SnowflakeCache, cached        *)
(*   utils/async_utils.py      AsyncTaskManager                            *)
(*                                                                         *)
(* Conventions.                                                            *)
(*  - Scores, similarities and thresholds are in hundredths: 65 is 0.65.   *)
(*  - A Python value that may be None, or a dict key that may be missing,  *)
(*    is a sequence of length at most one: None is <<>>, Some(x) is <<x>>. *)
(*  - A call ends in an outcome [status, exc, results]: status "return"    *)
(*    with the returned list, or status "raise" with the exception type.   *)
(*  - The warehouse and the Cortex services are collaborators: what they   *)
(*    answer to one call (rows, a failure) is an input of that call.       *)
(***************************************************************************)
EXTENDS Integers, Sequences, FiniteSets, TLC

\* ------------------------------------------------------------------ bounds
MaxLen == 2        \* longest list handed directly to _merge_search_results
MaxTopN == 2       \* largest top_n
MaxChunks == 2     \* longest pdf_contents list handed to the retrievers
MaxHistory == 1    \* rows the search_history table holds before no more are added
MaxTerms == 2      \* largest num_terms asked of generate_similar_terms
Dim == 2           \* longest vector handed to calculate_similarity
MaxTime == 2       \* last tick of the clock the caches read
MaxTasks == 1      \* calls of _run_with_progress submitted to the executor

\* ------------------------------------------------------- Python-like values
None == <<>>
Some(x) == <<x>>
\* bool(x) of an optional number and of an optional string
TruthyNum(opt) == opt # None /\ opt[1] # 0
TruthyStr(opt) == opt # None /\ opt[1] # ""

Min2(a, b) == IF a <= b THEN a ELSE b
Max2(a, b) == IF a >= b THEN a ELSE b

\* seq[:n] of Python, for any integer n
Slice(seq, n) ==
    IF n >= 0 THEN SubSeq(seq, 1, Min2(n, Len(seq)))
    ELSE SubSeq(seq, 1, Max2(0, Len(seq) + n))

Return(list) == [status |-> "return", exc |-> "", results |-> list]
Raise(e) == [status |-> "raise", exc |-> e, results |-> <<>>]

\* list.sort(key=..., reverse=True) over <<key, item>> pairs: descending by key,
\* equal keys keep their order
\* an insertion that puts x ahead of the items of equal key: a faulty variant, C15
\* must reject it
RECURSIVE InsertDescUnstable(_, _)
InsertDescUnstable(sorted, x) ==
    IF sorted = <<>> THEN <<x>>
    ELSE IF Head(sorted)[1] > x[1]
         THEN <<Head(sorted)>> \o InsertDescUnstable(Tail(sorted), x)
         ELSE <<x>> \o sorted

RECURSIVE InsertDesc(_, _)
InsertDesc(sorted, x) ==
    IF sorted = <<>> THEN <<x>>
    ELSE IF Head(sorted)[1] >= x[1]
         THEN <<Head(sorted)>> \o InsertDesc(Tail(sorted), x)
         ELSE <<x>> \o sorted

RECURSIVE SortPairsDesc(_)
SortPairsDesc(pairs) ==
    IF pairs = <<>> THEN <<>>
    ELSE InsertDesc(SortPairsDesc(SubSeq(pairs, 1, Len(pairs) - 1)), pairs[Len(pairs)])

\* keys[i] is the sort key of seq[i]
SortDesc(seq, keys) ==
    LET sorted == SortPairsDesc([i \in 1..Len(seq) |-> <<keys[i], seq[i]>>])
    IN  [i \in 1..Len(seq) |-> sorted[i][2]]

\* ------------------------------------------------------------ result dicts
\* A result dict: score, normalized_score, type and matched_terms may be missing.
Files == {"a.pdf", "b.pdf"}
Pages == {1, 2}

Result(f, p, s, t, m) ==
    [file_name |-> f, page |-> p, score |-> s, normalized_score |-> None,
     type |-> t, matched_terms |-> m]

ResultKey(r) == <<r.file_name, r.page>>

\* --------------------------------------------------- _merge_search_results
\* min(1.0, max(0.0, score))
Clamp(score) == Min2(100, Max2(0, score))

\* if "score" in result: result["normalized_score"] = min(1.0, max(0.0, result["score"]))
Normalize(r) ==
    IF r.score # None THEN [r EXCEPT !.normalized_score = Some(Clamp(r.score[1]))]
    ELSE r

\* a loop that forgets the seen set: a faulty variant, C3 must reject it
MergeLoopNoSeen(rest, seen, merged) ==
    [i \in 1..Len(rest) |-> Normalize(rest[i])]

\* the loop over vector_results + keyword_results with the seen set
RECURSIVE MergeLoop(_, _, _)
MergeLoop(rest, seen, merged) ==
    IF rest = <<>> THEN merged
    ELSE IF ResultKey(Head(rest)) \notin seen
         THEN MergeLoop(Tail(rest), seen \cup {ResultKey(Head(rest))},
                        Append(merged, Normalize(Head(rest))))
         ELSE MergeLoop(Tail(rest), seen, merged)

\* x.get("normalized_score", 0)
NormKey(r) == IF r.normalized_score # None THEN r.normalized_score[1] ELSE 0
NormKeys(list) == [i \in 1..Len(list) |-> NormKey(list[i])]

\* a merge that does not truncate: a faulty variant, C1 must reject it
MergeNoTruncate(vector_results, keyword_results, top_n) ==
    LET merged_results == MergeLoop(vector_results \o keyword_results, {}, <<>>)
    IN  SortDesc(merged_results, NormKeys(merged_results))

\* a merge that lets the later (keyword) occurrence win: a faulty variant, C4 must reject it
RECURSIVE Reverse(_)
Reverse(s) == IF s = <<>> THEN <<>> ELSE Append(Reverse(Tail(s)), Head(s))

MergeKeywordFirst(vector_results, keyword_results, top_n) ==
    LET merged_results == MergeLoop(Reverse(vector_results \o keyword_results), {}, <<>>)
    IN  Slice(SortDesc(merged_results, NormKeys(merged_results)), top_n)

_merge_search_results(vector_results, keyword_results, top_n) ==
    LET merged_results == MergeLoop(vector_results \o keyword_results, {}, <<>>)
    IN  Slice(SortDesc(merged_results, NormKeys(merged_results)), top_n)

\* ------------------------------------------------------------- the corpus
\* A chunk of pdf_contents.  Its text is the set of words it contains; its
\* embedding is known by what VECTOR_COSINE_SIMILARITY answers for it against
\* the embedding of the query; relevance is what SCORE() answers for it.
Chunk(f, p, w, s, r) ==
    [file_name |-> f, page |-> p, words |-> w, similarity |-> s, relevance |-> r]

ChunkPool ==
    { Chunk("a.pdf", 1, {"invoice"}, 90, 70),
      Chunk("a.pdf", 1, {"payment"}, 70, 120),
      Chunk("a.pdf", 2, {"invoice", "payment"}, 100, 120),
      Chunk("b.pdf", 1, {"invoice"}, 40, 50),
      Chunk("b.pdf", 1, {"terms"}, 90, 0),
      Chunk("b.pdf", 2, {"payment"}, 90, 130) }

SeqsUpTo(S, n) == UNION { [1..k -> S] : k \in 0..n }

Contents == SeqsUpTo(ChunkPool, MaxChunks)

Query == "invoice"
TopNs == 1..MaxTopN
Thresholds == {None, Some(0), Some(95)}

\* config.SETTINGS
SIMILARITY_THRESHOLD == 65
SettingsKeys ==
    {"SNOWFLAKE_STAGE", "MODEL_EMBED", "MODEL_CHAT", "CACHE_EXPIRE", "MAX_TOKENS",
     "MAX_CHUNKS_FOR_QUERY", "SIMILARITY_THRESHOLD", "SUMMARY_MAX_LENGTH", "DEBUG"}

\* The remote calls that can fail, and what Cortex COMPLETE answers (None: it raised
\* or timed out; otherwise its answer).
Services == {"embed", "index", "scan", "fulltext"}
\* a response is JSON with a similar_terms array ("json"), JSON of another shape
\* such as a bare array ("json_other"), or text to be split at commas ("text")
Response(format, terms) == [format |-> format, terms |-> terms]
Responses == {None, Some(Response("json", <<"Invoice", "payment">>))}
Envs == [faults : SUBSET Services, response : Responses]

\* ORDER BY key DESC: SQL fixes no order among rows of equal key
IndexOrders(n) == { p \in [1..n -> 1..n] : \A i, j \in 1..n : p[i] = p[j] => i = j }

\* keys[i] is the ORDER BY value of rows[i]
OrderByDesc(rows, keys) ==
    { [i \in 1..Len(rows) |-> rows[p[i]]] :
        p \in { q \in IndexOrders(Len(rows)) :
                  \A i, j \in 1..Len(rows) :
                      i < j => keys[q[i]] >= keys[q[j]] } }

\* LIMIT n
Limit(rows, n) == SubSeq(rows, 1, Min2(n, Len(rows)))

\* --------------------------------------------------------------- embed_text
\* embed_text([query])[0]: the embedding of the query, or on any failure the
\* zero vector [0.0] * 1024
embed_text(query, env) == IF "embed" \in env.faults THEN "zero" ELSE query

\* cosine of a chunk's embedding against the query embedding
Similarity(query_embedding, c) == IF query_embedding = "zero" THEN 0 ELSE c.similarity

\* ----------------------------------------------------- find_relevant_chunks
\* threshold or SETTINGS["SIMILARITY_THRESHOLD"]
EffectiveThreshold(threshold) ==
    IF TruthyNum(threshold) THEN threshold[1] ELSE SIMILARITY_THRESHOLD

\* WHERE similarity >= threshold ORDER BY similarity DESC LIMIT top_n, shaped into
\* result dicts; the index query and the full scan are this same query
SimilarityQuery(query_embedding, pdf_contents, top_n, threshold) ==
    LET Sim(c) == Similarity(query_embedding, c)
        rows == SelectSeq(pdf_contents, LAMBDA c : Sim(c) >= EffectiveThreshold(threshold))
    IN  { [i \in 1..Len(Limit(o, top_n)) |->
              Result(o[i].file_name, o[i].page, Some(Sim(o[i])), None, None)] :
          o \in OrderByDesc(rows, [i \in 1..Len(rows) |-> Sim(rows[i])]) }

\* _fallback_search: not guarded by any try
_fallback_search(query_embedding, pdf_contents, top_n, threshold, env) ==
    IF "scan" \in env.faults THEN {Raise("SnowparkSQLException")}
    ELSE { Return(rs) : rs \in SimilarityQuery(query_embedding, pdf_contents, top_n, threshold) }

\* a find_relevant_chunks whose except answers [] instead of falling back: a faulty
\* variant, C17 must reject it
FindRelevantChunksNoFallback(query_embedding, pdf_contents, top_n, threshold, use_index, env) ==
    IF pdf_contents = None THEN {Raise("TypeError")}
    ELSE IF use_index
         THEN IF "index" \in env.faults THEN {Return(<<>>)}
              ELSE { Return(rs) :
                       rs \in SimilarityQuery(query_embedding, pdf_contents[1], top_n,
                                              threshold) }
         ELSE _fallback_search(query_embedding, pdf_contents[1], top_n, threshold, env)

\* pdf_contents is None or a list of chunks
find_relevant_chunks(query_embedding, pdf_contents, top_n, threshold, use_index, env) ==
    IF pdf_contents = None THEN {Raise("TypeError")}
    ELSE IF use_index /\ "index" \notin env.faults
         THEN { Return(rs) :
                  rs \in SimilarityQuery(query_embedding, pdf_contents[1], top_n, threshold) }
         ELSE _fallback_search(query_embedding, pdf_contents[1], top_n, threshold, env)

\* --------------------------------------------------- generate_similar_terms
\* str.lower() on the terms in play
Lower(t) == IF t = "Invoice" THEN "invoice" ELSE t
\* str.strip() on the pieces in play
Strip(t) == IF t = " Invoice " THEN "Invoice" ELSE IF t = " " THEN "" ELSE t

\* a parse that keeps every term: a faulty variant, C19 must reject it
ParseSimilarTermsRaw(response, query, num_terms) == response.terms

\* lines 237-249: the similar_terms array of a JSON response, or the stripped
\* non-empty pieces of a text response; the terms equal to the query in lower case
\* are dropped and the first num_terms kept.  On JSON of another shape json.loads
\* succeeds and result.get raises AttributeError, no JSONDecodeError: the outer
\* except answers [].
ParseSimilarTerms(response, query, num_terms) ==
    LET terms == IF response.format = "json" THEN response.terms
                 ELSE SelectSeq([i \in 1..Len(response.terms) |-> Strip(response.terms[i])],
                                LAMBDA t : t # "")
    IN  IF response.format = "json_other" THEN <<>>
        ELSE Slice(SelectSeq(terms, LAMBDA t : Lower(t) # Lower(query)), num_terms)

\* Everything after get_active_session() sits in one try whose except returns [].
\* Building the call reads SETTINGS["MODEL_COMPLETE"], a key config.py does not
\* define: the KeyError is caught there.
generate_similar_terms(query, num_terms, env) ==
    IF "MODEL_COMPLETE" \notin SettingsKeys \/ env.response = None THEN <<>>
    ELSE ParseSimilarTerms(env.response[1], query, num_terms)

\* an expansion that forgets the query itself: a faulty variant, C20 must reject it
ExpandWithoutQuery(query, env) ==
    { generate_similar_terms(query, 3, env)[i] :
        i \in 1..Len(generate_similar_terms(query, 3, env)) }

\* set([query] + similar_terms): the terms OR-ed in the expanded query
_expand_query_with_similar_terms(query, env) ==
    {query} \cup { generate_similar_terms(query, 3, env)[i] :
                    i \in 1..Len(generate_similar_terms(query, 3, env)) }

\* ----------------------------------------------------------- _keyword_search
\* WHERE CONTAINS(text, expanded_query) ORDER BY relevance DESC LIMIT top_n; only the
\* session.sql(...).collect() is inside the try that answers []
_keyword_search(query, pdf_contents, top_n, env) ==
    LET expanded == _expand_query_with_similar_terms(query, env)
        Rel(c) == c.relevance
    IN  IF pdf_contents = None THEN {Raise("TypeError")}
        ELSE IF "fulltext" \in env.faults THEN {Return(<<>>)}
        ELSE LET rows == SelectSeq(pdf_contents[1],
                                   LAMBDA c : c.words \cap expanded # {})
             IN  { Return([i \in 1..Len(Limit(o, top_n)) |->
                              Result(o[i].file_name, o[i].page, Some(o[i].relevance),
                                     Some("keyword"), Some(o[i].words \cap expanded))]) :
                   o \in OrderByDesc(rows, [i \in 1..Len(rows) |-> Rel(rows[i])]) }

\* -------------------------------------------------------------- hybrid_search
\* what hybrid_search does with the two branches' outcomes: an exception of either
\* branch leaves the function, otherwise the lists are merged
Combine(v, k, top_n) ==
    IF v.status = "raise" THEN v
    ELSE IF k.status = "raise" THEN k
    ELSE Return(_merge_search_results(v.results, k.results, top_n))

hybrid_search(query, pdf_contents, top_n, threshold, use_similar_terms, env) ==
    LET V == find_relevant_chunks(embed_text(query, env), pdf_contents, top_n,
                                  threshold, TRUE, env)
        K == IF use_similar_terms THEN _keyword_search(query, pdf_contents, top_n, env)
             ELSE {Return(<<>>)}
    IN  { Combine(v, k, top_n) : v \in V, k \in K }

\* ---------------------------------------------- search_in_tables_and_figures
\* No chunk of ChunkPool carries "tables" or "figures": both frames are empty, no
\* query runs and the list stays empty.
search_in_tables_and_figures(query, pdf_contents, top_n) == {Return(<<>>)}

\* ------------------------------------------ DocumentService.search_documents
SearchTypes == {"hybrid", "vector", "keyword", "tables_figures", "fuzzy"}

\* the dispatch inside the try
DispatchDocuments(query, chunks, search_type, top_n, threshold, env) ==
    IF search_type = "hybrid"
    THEN hybrid_search(query, Some(chunks), top_n, threshold, TRUE, env)
    ELSE IF search_type = "vector"
    THEN find_relevant_chunks(embed_text(query, env), Some(chunks), top_n, threshold,
                              TRUE, env)
    ELSE IF search_type = "keyword"
    THEN {Raise("NameError")}   \* document_service.py does not import _keyword_search
    ELSE IF search_type = "tables_figures"
    THEN search_in_tables_and_figures(query, Some(chunks), top_n)
    ELSE {Raise("ValueError")}

\* chunks: the rows the chunks query answers.  except Exception: return []
search_documents(query, chunks, search_type, top_n, threshold, env) ==
    IF chunks = <<>> THEN {Return(<<>>)}
    ELSE { IF o.status = "raise" THEN Return(<<>>) ELSE o :
           o \in DispatchDocuments(query, chunks, search_type, top_n, threshold, env) }

\* ------------------------------------------------------------ SearchService
\* A filters dict: every key may be missing.  Ranges are <<start, end>>.
FilterDict(dr, ft, pr, tg, fo, fn) ==
    [date_range |-> dr, file_types |-> ft, page_range |-> pr, tags |-> tg,
     folders |-> fo, file_names |-> fn]

EmptyDict == FilterDict(None, None, None, None, None, None)

\* bool(filters): None and {} are falsy
FiltersTruthy(filters) == filters # None /\ filters[1] # EmptyDict

FilterInputs ==
    { None, Some(EmptyDict),
      Some(FilterDict(Some(<<1, 1>>), None, None, None, None, None)),
      Some(FilterDict(None, Some({"pdf"}), None, None, None, None)),
      Some(FilterDict(None, None, Some(<<1, 1>>), None, None, None)),
      Some(FilterDict(None, None, None, Some({"legal"}), None, None)),
      Some(FilterDict(None, None, None, None, Some({"/f1"}), None)),
      Some(FilterDict(Some(<<1, 2>>), Some({"pdf", "txt"}), Some(<<2, 2>>),
                      Some({"finance"}), Some({"/f1", "/f2"}), None)) }

\* rows of the document_metadata table (tags is an ARRAY column that may be NULL)
MetadataRow(f, d, t, tg, fo) ==
    [file_name |-> f, upload_date |-> d, file_type |-> t, tags |-> tg, folder_path |-> fo]

MetadataRows ==
    { MetadataRow("a.pdf", 1, "pdf", Some({"finance"}), "/f1"),
      MetadataRow("b.pdf", 2, "txt", Some({"legal"}), "/f2") }

\* what the cache holds under "document_contents" when it holds anything
StoredContents ==
    << Chunk("a.pdf", 1, {"invoice"}, 90, 70),
       Chunk("a.pdf", 2, {"invoice", "payment"}, 100, 50),
       Chunk("b.pdf", 1, {"invoice"}, 40, 50),
       Chunk("b.pdf", 2, {"payment"}, 90, 130) >>

\* What the warehouse answers during one search: the rows of document_metadata, the
\* cache entry for "document_contents" (None: no live entry), and whether the INSERT
\* into search_history succeeds.
SearchEnvs ==
    [document_metadata : {{}, MetadataRows}, cached : {None, Some(StoredContents)},
     history_ok : BOOLEAN]

\* _load_document_contents: its body is pass
_load_document_contents == None

\* _get_document_contents: on a miss the loaded value (None) is cached and returned
_get_document_contents(env) ==
    IF env.cached = None THEN _load_document_contents ELSE env.cached

\* the WHERE clause _apply_filters builds; "file_names" is never read.
\* ARRAY_INTERSECTION(tags, :tags) IS NOT NULL: the intersection of two arrays is an
\* array, empty when they share nothing, and NULL only when an argument is NULL.
WhereClause(filters, row) ==
    /\ filters.date_range # None =>
           /\ filters.date_range[1][1] <= row.upload_date
           /\ row.upload_date <= filters.date_range[1][2]
    /\ filters.file_types # None => row.file_type \in filters.file_types[1]
    /\ filters.tags # None => row.tags # None
    /\ filters.folders # None => row.folder_path \in filters.folders[1]

\* outcome of _apply_filters(filters); iterating a None contents raises TypeError
_apply_filters(filters, env) ==
    LET filtered_file_names ==
            { row.file_name : row \in { r \in env.document_metadata : WhereClause(filters, r) } }
        contents == _get_document_contents(env)
    IN  IF contents = None THEN Raise("TypeError")
        ELSE Return(SelectSeq(contents[1],
                 LAMBDA c : /\ c.file_name \in filtered_file_names
                            /\ filters.page_range # None =>
                                   /\ filters.page_range[1][1] <= c.page
                                   /\ c.page <= filters.page_range[1][2]))

\* a Python function that fell off its end: the value None
ReturnNone == [status |-> "none", exc |-> "", results |-> <<>>]

Modes == {"all", "single"}
\* None, empty, a known document, an unknown document
Targets == {None, Some(""), Some("a.pdf"), Some("z.pdf")}
SearchOptionInputs ==
    {None} \cup { Some([search_type |-> Some(t), use_similar_terms |-> Some(TRUE)]) :
                  t \in {"hybrid", "vector", "keyword", "fuzzy"} }

\* search_options.get("search_type", "hybrid") if search_options else "hybrid"
SearchTypeOf(search_options) ==
    IF search_options = None \/ search_options[1].search_type = None THEN "hybrid"
    ELSE search_options[1].search_type[1]

\* lines 115-118: in single mode with a truthy target, filters["file_names"] = [target]
EffectiveFilters(mode, target_document, filters) ==
    IF mode = "single" /\ TruthyStr(target_document)
    THEN Some([(IF filters = None THEN EmptyDict ELSE filters[1])
                  EXCEPT !.file_names = Some({target_document[1]})])
    ELSE filters

\* _optimized_single_doc_search and _optimized_single_doc_keyword_search: [] when
\* contents is None or empty; otherwise the first statement calls a method the
\* class does not define (_get_query_embedding, _extract_keywords)
OptimizedSingleDoc(contents) ==
    IF contents = None \/ contents[1] = <<>> THEN Return(<<>>)
    ELSE Raise("AttributeError")

\* _vector_search and _keyword_search of the service; the _standard_* bodies are pass
ServiceSearch(mode, contents) ==
    IF mode = "single" THEN OptimizedSingleDoc(contents) ELSE ReturnNone

\* lines 128-139; hybrid_search takes no parameter named mode
Dispatch(search_type, mode, contents) ==
    IF search_type = "hybrid" THEN Raise("TypeError")
    ELSE IF search_type = "vector" THEN ServiceSearch(mode, contents)
    ELSE ServiceSearch(mode, contents)

\* a row that loses the target document: a faulty variant, C23 must reject it
HistoryEntryNoTarget(query, mode, target_document, filters, results_count) ==
    [query |-> query, mode |-> mode, target_document |-> None,
     filters |-> IF FiltersTruthy(filters) THEN filters[1] ELSE EmptyDict,
     results_count |-> results_count]

\* the row _save_search_history inserts; json.dumps(filters) if filters else "{}":
\* no filters and empty filters are both stored as {}
HistoryEntry(query, mode, target_document, filters, results_count) ==
    [query |-> query, mode |-> mode, target_document |-> target_document,
     filters |-> IF FiltersTruthy(filters) THEN filters[1] ELSE EmptyDict,
     results_count |-> results_count]

\* SearchService.search: the effective filters, the working chunk set
\* (filtered_contents, None when _apply_filters was not reached or raised), the
\* outcome, and the rows written to search_history
search(query, mode, target_document, filters, search_options, top_n, save_history, env) ==
    LET eff == EffectiveFilters(mode, target_document, filters)
        applied == IF FiltersTruthy(eff) THEN _apply_filters(eff[1], env) ELSE ReturnNone
        contents == IF applied.status = "return" THEN Some(applied.results) ELSE None
        found == Dispatch(SearchTypeOf(search_options), mode, contents)
        entry == HistoryEntry(query, mode, target_document, eff, Len(found.results))
    IN  IF applied.status = "raise"
        THEN [filters |-> eff, filtered_contents |-> None, outcome |-> applied,
              written |-> <<>>]
        ELSE IF found.status = "raise"
        THEN [filters |-> eff, filtered_contents |-> contents, outcome |-> found,
              written |-> <<>>]
        ELSE IF found.status = "none"     \* len(None)
        THEN [filters |-> eff, filtered_contents |-> contents,
              outcome |-> Raise("TypeError"), written |-> <<>>]
        ELSE IF save_history /\ ~env.history_ok
        THEN [filters |-> eff, filtered_contents |-> contents,
              outcome |-> Raise("SnowparkSQLException"), written |-> <<>>]
        ELSE [filters |-> eff, filtered_contents |-> contents, outcome |-> found,
              written |-> IF save_history THEN <<entry>> ELSE <<>>]

\* _init_tables runs four statements: DROP search_history (1), DROP document_metadata
\* (2), CREATE search_history (3), CREATE document_metadata (4); the first one the
\* warehouse refuses (failed, 0 for none) is printed and raised again. rows are the
\* rows of search_history before; a dropped table has none.
InitStatements == 0..4

InitTablesNoDrop(rows, failed) ==
    IF failed = 0
    THEN [outcome |-> Return(None), search_history |-> rows]
    ELSE [outcome |-> Raise("SnowparkSQLException"), search_history |-> rows]

_init_tables(rows, failed) ==
    IF failed = 0
    THEN [outcome |-> Return(None), search_history |-> <<>>]
    ELSE [outcome |-> Raise("SnowparkSQLException"),
          search_history |-> IF failed = 1 THEN rows ELSE <<>>]

\* the user_id _save_search_history stores with every row of this session
SessionUser == "anonymous"
UserIds == {None, Some("anonymous"), Some("someone else")}
Limits == {1, 10}

\* get_search_history: the newest rows first (each row is inserted at a later
\* timestamp than the one before), of the given user if one is given, at most limit
get_search_history(rows, user_id, limit, select_ok) ==
    IF ~select_ok THEN Raise("SnowparkSQLException")
    ELSE IF TruthyStr(user_id) /\ user_id[1] # SessionUser THEN Return(<<>>)
    ELSE Return(Limit(Reverse(rows), limit))

\* ------------------------------------------------------------ utils/cache_utils.py
CacheKeys == {"document_contents", "summary"}
CacheValues == {"v1", "v2"}
\* ttl arguments, in clock ticks; None is the default of both set methods
Ttls == {None, Some(1)}
\* the two sessions that load the document contents at the same time
Sessions == {1, 2}

\* SessionCache.set, lines 342-355: cache_data gets "expires_at" only when a ttl is given
CacheData(value, ttl, t) ==
    [value |-> value, created_at |-> t,
     expires_at |-> IF ttl # None THEN Some(t + ttl[1]) ELSE None]

SessionCache_set(cache, key, value, ttl, t) ==
    [cache EXCEPT ![key] = Some(CacheData(value, ttl, t))]

\* SessionCache.get: the stored value, or default for a missing or expired entry;
\* an expired entry is deleted by the read
SessionCache_get(cache, key, default, t) ==
    LET cache_data == cache[key]
    IN  IF cache_data = None
        THEN [value |-> default, cache |-> cache]
        ELSE IF /\ cache_data[1].expires_at # None
                /\ cache_data[1].expires_at[1] <= t
             THEN [value |-> default, cache |-> [cache EXCEPT ![key] = None]]
             ELSE [value |-> cache_data[1].value, cache |-> cache]

\* SessionCache.clear_expired: deletes the entries whose expiry has passed, returns
\* how many
SessionCache_clear_expired(cache, t) ==
    LET expired_keys == { k \in DOMAIN cache :
                            /\ cache[k] # None
                            /\ cache[k][1].expires_at # None
                            /\ cache[k][1].expires_at[1] <= t }
    IN  [count |-> Cardinality(expired_keys),
         cache |-> [k \in DOMAIN cache |-> IF k \in expired_keys THEN None ELSE cache[k]]]

\* SnowflakeCache.set formats expires_at into the MERGE text (line 150): a snowpark
\* Column object when a ttl is given (line 139), Python None otherwise (line 140)
ExpiresAtText(ttl) == IF ttl # None THEN "Column object" ELSE "None"

\* the texts the warehouse takes as a timestamp expression in that place
TimestampExpressions == {"NULL", "DATEADD(second, ttl, CURRENT_TIMESTAMP())"}

\* SnowflakeCache.set: the MERGE upserts the row of the key; when the warehouse
\* rejects the statement the except branch returns False and nothing is written
SnowflakeCache_set(table, key, value, ttl, t) ==
    IF ExpiresAtText(ttl) \in TimestampExpressions
    THEN [ok |-> TRUE, table |-> [table EXCEPT ![key] = Some(CacheData(value, ttl, t))]]
    ELSE [ok |-> FALSE, table |-> table]

\* SnowflakeCache.get: the row of the key unless its expires_at has passed
SnowflakeCache_get(table, key, default, t) ==
    LET result == table[key]
    IN  IF /\ result # None
           /\ (result[1].expires_at = None \/ result[1].expires_at[1] > t)
        THEN result[1].value
        ELSE default

\* cached(cache_type="session", ttl=ttl).wrapper: a stored value that is not None is
\* returned; otherwise the function runs and its result is stored by
\* cache.set(cache_key, result), line 498, which passes no ttl
CachedWrapper(cache, key, result, ttl, t) ==
    LET got == SessionCache_get(cache, key, None, t)
    IN  IF got.value # None
        THEN [value |-> got.value, cache |-> got.cache]
        ELSE [value |-> result, cache |-> SessionCache_set(got.cache, key, result, None, t)]

\* -------------------------------------------------------- utils/async_utils.py
TaskIds == {"summarize"}

\* ----------------------------------------------------------------- the state
VARIABLES
    op,                 \* the call whose outcome the caller holds, "none" between calls
    args,               \* its arguments and the collaborators' answers
    ret,                \* its outcome
    filtered_contents,  \* search's local of that name after line 121
    search_history,     \* the rows of the search_history table
    first_ret,          \* when the caller repeats a call: the outcome of the first one
    session_cache,      \* st.session_state.cache: key -> cache_data, None when absent
    cache_table,        \* the rows of the Snowflake cache table, by cache_key
    now,                \* the clock: datetime.now() and CURRENT_TIMESTAMP()
    loaders,            \* two sessions inside _get_document_contents: their position
    tasks,              \* AsyncTaskManager.tasks: task_id -> the Future, None when absent
    progress_bars,      \* AsyncTaskManager.progress_bars: task_id -> the bar, None when absent
    futures,            \* the submitted calls of _run_with_progress, in order of submission
    pc,                 \* the line the script thread is at inside run_task or cancel_task
    bars                \* the progress bars created so far: what each one has shown

cacheVars == <<session_cache, cache_table, now, loaders>>
taskVars == <<tasks, progress_bars, futures, pc, bars>>
vars == <<op, args, ret, filtered_contents, search_history, first_ret,
          session_cache, cache_table, now, loaders,
          tasks, progress_bars, futures, pc, bars>>

Init ==
    /\ op = "none"
    /\ args = <<>>
    /\ ret = ReturnNone
    /\ filtered_contents = None
    /\ search_history = <<>>
    /\ first_ret = ReturnNone
    /\ session_cache = [k \in CacheKeys |-> None]
    /\ cache_table = [k \in CacheKeys |-> None]
    /\ now = 0
    /\ loaders = [p \in Sessions |-> [at |-> "idle", contents |-> None]]
    /\ tasks = [t \in TaskIds |-> None]
    /\ progress_bars = [t \in TaskIds |-> None]
    /\ futures = <<>>
    /\ pc = "idle"
    /\ bars = <<>>

\* a direct call of _merge_search_results on any two lists of result dicts
ResultPool ==
    { Result(f, 1, s, None, None) : f \in Files, s \in {None, Some(-50), Some(50), Some(150)} }

KeywordResultPool ==
    { Result(f, 1, s, Some("keyword"), Some({Query})) :
        f \in Files, s \in {None, Some(70), Some(150)} }

MergeCall ==
    /\ op = "none"
    /\ UNCHANGED <<cacheVars, taskVars>>
    /\ \E v \in SeqsUpTo(ResultPool, MaxLen), k \in SeqsUpTo(KeywordResultPool, MaxLen),
          n \in TopNs :
        /\ op' = "_merge_search_results"
        /\ args' = [vector_results |-> v, keyword_results |-> k, top_n |-> n]
        /\ ret' = Return(_merge_search_results(v, k, n))
        /\ UNCHANGED <<filtered_contents, search_history, first_ret>>

\* a call of hybrid_search (chat_service.py, ai_service.py)
HybridSearchCall ==
    /\ op = "none"
    /\ UNCHANGED <<cacheVars, taskVars>>
    /\ \E c \in Contents, n \in TopNs, t \in Thresholds, u \in BOOLEAN, env \in Envs :
        \E out \in hybrid_search(Query, Some(c), n, t, u, env) :
            /\ op' = "hybrid_search"
            /\ args' = [pdf_contents |-> c, top_n |-> n, threshold |-> t,
                        use_similar_terms |-> u, env |-> env]
            /\ ret' = out
            /\ UNCHANGED <<filtered_contents, search_history, first_ret>>

\* a call of DocumentService.search_documents
SearchDocumentsCall ==
    /\ op = "none"
    /\ UNCHANGED <<cacheVars, taskVars>>
    /\ \E c \in Contents, st \in SearchTypes, n \in TopNs, t \in Thresholds, env \in Envs :
        \E out \in search_documents(Query, c, st, n, t, env) :
            /\ op' = "search_documents"
            /\ args' = [pdf_contents |-> c, search_type |-> st, top_n |-> n,
                        threshold |-> t, env |-> env]
            /\ ret' = out
            /\ UNCHANGED <<filtered_contents, search_history, first_ret>>

\* a call of SearchService.search, save_history drawn from saves
SearchCall(saves) ==
    /\ op = "none"
    /\ UNCHANGED <<cacheVars, taskVars>>
    /\ Len(search_history) < MaxHistory
    /\ \E m \in Modes, td \in Targets, f \in FilterInputs, so \in SearchOptionInputs,
          n \in TopNs, sh \in saves, env \in SearchEnvs :
        LET r == search(Query, m, td, f, so, n, sh, env)
        IN  /\ op' = "search"
            /\ args' = [mode |-> m, target_document |-> td, filters |-> f,
                        search_options |-> so, top_n |-> n, save_history |-> sh,
                        env |-> env,
                        \* the dict object the caller passed, as the call leaves it
                        \* (line 118 assigns into it)
                        filters_after |-> IF f = None THEN None ELSE r.filters]
            /\ ret' = r.outcome
            /\ filtered_contents' = r.filtered_contents
            /\ search_history' = search_history \o r.written
            /\ UNCHANGED first_ret

\* SearchService.__init__: _init_tables drops and recreates search_history; failed
\* is the statement the warehouse refuses, 0 when it runs all four
Construct ==
    /\ op = "none"
    /\ UNCHANGED <<cacheVars, taskVars>>
    /\ \E failed \in InitStatements :
        LET r == _init_tables(search_history, failed)
        IN  /\ op' = "SearchService"
            /\ args' = [failed |-> failed, dropped |-> search_history]
            /\ ret' = r.outcome
            /\ search_history' = r.search_history
    /\ filtered_contents' = None
    /\ UNCHANGED first_ret

\* a call of get_search_history; select_ok: the warehouse runs the SELECT
GetSearchHistoryCall ==
    /\ op = "none"
    /\ UNCHANGED <<cacheVars, taskVars>>
    /\ \E user_id \in UserIds, limit \in Limits, select_ok \in BOOLEAN :
        /\ op' = "get_search_history"
        /\ args' = [user_id |-> user_id, limit |-> limit, select_ok |-> select_ok]
        /\ ret' = get_search_history(search_history, user_id, limit, select_ok)
    /\ UNCHANGED <<filtered_contents, search_history, first_ret>>

\* the caller is done with the outcome and is free to make the next call
Done ==
    /\ op # "none"
    /\ pc = "idle"
    /\ UNCHANGED <<cacheVars, taskVars>>
    /\ op' = "none"
    /\ args' = <<>>
    /\ ret' = ReturnNone
    /\ filtered_contents' = None
    /\ first_ret' = ReturnNone
    /\ UNCHANGED search_history

Next == SearchCall(BOOLEAN) \/ Construct \/ GetSearchHistoryCall \/ Done
NextCalls ==
    MergeCall \/ HybridSearchCall \/ SearchDocumentsCall \/ SearchCall({FALSE}) \/ Done

\* the search service with its history table
Spec == Init /\ [][Next]_vars
\* every entry point, called with no history kept (save_history = False)
SpecCalls == Init /\ [][NextCalls]_vars

\* ------------------------------------------------------------ repeated calls
\* The caller repeats the hybrid_search it just made: same arguments, same corpus,
\* same failing services; Cortex COMPLETE is asked again and answers what it likes.
RepeatHybridSearch ==
    /\ op = "hybrid_search"
    /\ UNCHANGED <<cacheVars, taskVars>>
    /\ \E response \in Responses :
        \E out \in hybrid_search(Query, Some(args.pdf_contents), args.top_n,
                                 args.threshold, args.use_similar_terms,
                                 [args.env EXCEPT !.response = response]) :
            /\ op' = "hybrid_search again"
            /\ first_ret' = ret
            /\ ret' = out
            /\ UNCHANGED <<args, filtered_contents, search_history>>

\* The caller repeats the SearchService.search it just made (no history kept)
RepeatSearch ==
    /\ op = "search"
    /\ UNCHANGED <<cacheVars, taskVars>>
    /\ ~args.save_history
    /\ LET r == search(Query, args.mode, args.target_document, args.filters,
                       args.search_options, args.top_n, FALSE, args.env)
       IN  /\ op' = "search again"
           /\ first_ret' = ret
           /\ ret' = r.outcome
           /\ filtered_contents' = r.filtered_contents
           /\ UNCHANGED <<args, search_history>>

NextRepeat ==
    HybridSearchCall \/ SearchCall({FALSE}) \/ RepeatHybridSearch \/ RepeatSearch \/ Done

\* a search made twice in a row
SpecRepeat == Init /\ [][NextRepeat]_vars

\* ------------------------------------------------------ vector retrieval alone
\* the query's embedding, or the zero vector embed_text answers on a failure
QueryEmbeddings == {Query, "zero"}
\* the index query and the full scan may each fail
VectorEnvs == { e \in Envs : e.faults \subseteq {"index", "scan"} /\ e.response = None }

\* a call of find_relevant_chunks
FindRelevantChunksCall ==
    /\ op = "none"
    /\ UNCHANGED <<cacheVars, taskVars>>
    /\ \E q \in QueryEmbeddings, c \in Contents, n \in TopNs, t \in Thresholds,
          ui \in BOOLEAN, env \in VectorEnvs :
        \E out \in find_relevant_chunks(q, Some(c), n, t, ui, env) :
            /\ op' = "find_relevant_chunks"
            /\ args' = [query_embedding |-> q, pdf_contents |-> c, top_n |-> n,
                        threshold |-> t, use_index |-> ui, env |-> env]
            /\ ret' = out
            /\ UNCHANGED <<filtered_contents, search_history, first_ret>>

NextVector == FindRelevantChunksCall \/ Done

\* the vector retrieval called on its own
SpecVector == Init /\ [][NextVector]_vars

\* ------------------------------------------------------ calculate_similarity
\* Vectors of 1..Dim integer components.  A float is kept exact: the number
\* num / sqrt(den2), 0.0 in one form only, or NaN.
Components == {-1, 0, 1}
Vectors == UNION { [1..n -> Components] : n \in 1..Dim }

NaN == [kind |-> "nan", num |-> 0, den2 |-> 0]
Zero == [kind |-> "number", num |-> 0, den2 |-> 1]

RECURSIVE Dot(_, _)
Dot(a, b) == IF a = <<>> THEN 0 ELSE Head(a) * Head(b) + Dot(Tail(a), Tail(b))
\* np.linalg.norm(a) squared
NormSq(a) == Dot(a, a)

\* float64 division num / sqrt(den2): a zero divisor gives nan (0.0 / 0.0) with a
\* RuntimeWarning, no exception; the dividend is 0 whenever a norm is
Quotient(num, den2) ==
    IF den2 = 0 THEN NaN
    ELSE IF num = 0 THEN Zero
    ELSE [kind |-> "number", num |-> num, den2 |-> den2]

\* the except branch: np.dot raises ValueError on vectors of different length and
\* the bare except answers 0.0
LocalSimilarity(vec1, vec2) ==
    IF Len(vec1) # Len(vec2) THEN Zero
    ELSE Quotient(Dot(vec1, vec2), NormSq(vec1) * NormSq(vec2))

\* remote: the VECTOR_COSINE_SIMILARITY query answered.  It cannot for vectors of
\* different dimension; what it gives for a zero vector is the warehouse's affair.
calculate_similarity(vec1, vec2, remote) ==
    IF ~remote \/ Len(vec1) # Len(vec2) THEN {Return(LocalSimilarity(vec1, vec2))}
    ELSE IF NormSq(vec1) * NormSq(vec2) = 0
    THEN {Return(NaN), Return(Zero), Return(LocalSimilarity(vec1, vec2))}
    ELSE {Return(Quotient(Dot(vec1, vec2), NormSq(vec1) * NormSq(vec2)))}

\* a call of calculate_similarity
CalculateSimilarityCall ==
    /\ op = "none"
    /\ UNCHANGED <<cacheVars, taskVars>>
    /\ \E vec1 \in Vectors, vec2 \in Vectors, remote \in BOOLEAN :
        \E out \in calculate_similarity(vec1, vec2, remote) :
            /\ op' = "calculate_similarity"
            /\ args' = [vec1 |-> vec1, vec2 |-> vec2, remote |-> remote]
            /\ ret' = out
            /\ UNCHANGED <<filtered_contents, search_history, first_ret>>

NextSimilarity == CalculateSimilarityCall \/ Done

\* calculate_similarity called on its own
SpecSimilarity == Init /\ [][NextSimilarity]_vars

\* --------------------------------------------------- synonym expansion alone
\* the pieces a completion may hold: the query in another case, padded, another
\* term, an empty piece
Pieces == {"Invoice", " Invoice ", "payment", " "}
NumTerms == 0..MaxTerms
\* the completion raised (None) or answered up to MaxTerms + 1 pieces
TermResponses ==
    {None} \cup { Some(Response(f, t)) :
                    f \in {"json", "json_other", "text"}, t \in SeqsUpTo(Pieces, MaxTerms + 1) }
TermEnvs == [faults : {{}}, response : TermResponses]
\* the full-text query may fail
KeywordEnvs == { e \in Envs : e.faults \subseteq {"fulltext"} }

\* a call of generate_similar_terms
GenerateSimilarTermsCall ==
    /\ op = "none"
    /\ UNCHANGED <<cacheVars, taskVars>>
    /\ \E n \in NumTerms, env \in TermEnvs :
        /\ op' = "generate_similar_terms"
        /\ args' = [num_terms |-> n, env |-> env]
        /\ ret' = Return(generate_similar_terms(Query, n, env))
        /\ UNCHANGED <<filtered_contents, search_history, first_ret>>

\* a call of _expand_query_with_similar_terms; the outcome holds the set of terms
\* the expanded query ORs together
ExpandQueryCall ==
    /\ op = "none"
    /\ UNCHANGED <<cacheVars, taskVars>>
    /\ \E env \in TermEnvs :
        /\ op' = "_expand_query_with_similar_terms"
        /\ args' = [env |-> env]
        /\ ret' = Return(_expand_query_with_similar_terms(Query, env))
        /\ UNCHANGED <<filtered_contents, search_history, first_ret>>

\* a call of _keyword_search
KeywordSearchCall ==
    /\ op = "none"
    /\ UNCHANGED <<cacheVars, taskVars>>
    /\ \E c \in Contents, n \in TopNs, env \in KeywordEnvs :
        \E out \in _keyword_search(Query, Some(c), n, env) :
            /\ op' = "_keyword_search"
            /\ args' = [pdf_contents |-> c, top_n |-> n, env |-> env]
            /\ ret' = out
            /\ UNCHANGED <<filtered_contents, search_history, first_ret>>

NextTerms ==
    GenerateSimilarTermsCall \/ ExpandQueryCall \/ KeywordSearchCall \/ Done

\* the synonym expansion and the keyword matcher called on their own
SpecTerms == Init /\ [][NextTerms]_vars

\* ------------------------------------------------------------------ the caches
\* the ttl _get_document_contents passes (3600 s), in clock ticks
ContentsTtl == Some(1)

\* time passes
Tick ==
    /\ now < MaxTime
    /\ now' = now + 1
    /\ UNCHANGED <<op, args, ret, filtered_contents, search_history, first_ret,
                   session_cache, cache_table, loaders, taskVars>>

\* a call of SessionCache.set
SessionSetCall ==
    /\ op = "none"
    /\ \E k \in CacheKeys, v \in CacheValues, ttl \in Ttls :
        /\ op' = "SessionCache.set"
        /\ args' = [key |-> k, value |-> Some(v), ttl |-> ttl, now |-> now]
        /\ ret' = Return(None)
        /\ session_cache' = SessionCache_set(session_cache, k, Some(v), ttl, now)
    /\ UNCHANGED <<filtered_contents, search_history, first_ret,
                   cache_table, now, loaders, taskVars>>

\* a call of SessionCache.get with the default default (None)
SessionGetCall ==
    /\ op = "none"
    /\ \E k \in CacheKeys :
        LET got == SessionCache_get(session_cache, k, None, now)
        IN  /\ op' = "SessionCache.get"
            /\ args' = [key |-> k, now |-> now, stored |-> session_cache[k]]
            /\ ret' = Return(got.value)
            /\ session_cache' = got.cache
    /\ UNCHANGED <<filtered_contents, search_history, first_ret,
                   cache_table, now, loaders, taskVars>>

\* a call of SessionCache.clear_expired
SessionClearExpiredCall ==
    /\ op = "none"
    /\ LET swept == SessionCache_clear_expired(session_cache, now)
       IN  /\ op' = "SessionCache.clear_expired"
           /\ args' = [now |-> now]
           /\ ret' = Return(swept.count)
           /\ session_cache' = swept.cache
    /\ UNCHANGED <<filtered_contents, search_history, first_ret,
                   cache_table, now, loaders, taskVars>>

\* a call of a function decorated with cached(cache_type="session", ttl=ttl); the
\* function would return result
CachedCall ==
    /\ op = "none"
    /\ \E k \in CacheKeys, result \in {None} \cup { Some(v) : v \in CacheValues },
          ttl \in Ttls :
        LET r == CachedWrapper(session_cache, k, result, ttl, now)
        IN  /\ op' = "cached.wrapper"
            /\ args' = [key |-> k, result |-> result, ttl |-> ttl, now |-> now]
            /\ ret' = Return(r.value)
            /\ session_cache' = r.cache
    /\ UNCHANGED <<filtered_contents, search_history, first_ret,
                   cache_table, now, loaders, taskVars>>

\* a call of SnowflakeCache.set
SnowflakeSetCall ==
    /\ op = "none"
    /\ \E k \in CacheKeys, v \in CacheValues, ttl \in Ttls :
        LET r == SnowflakeCache_set(cache_table, k, Some(v), ttl, now)
        IN  /\ op' = "SnowflakeCache.set"
            /\ args' = [key |-> k, value |-> Some(v), ttl |-> ttl, now |-> now]
            /\ ret' = Return(r.ok)
            /\ cache_table' = r.table
    /\ UNCHANGED <<filtered_contents, search_history, first_ret,
                   session_cache, now, loaders, taskVars>>

\* a call of SnowflakeCache.get with the default default (None)
SnowflakeGetCall ==
    /\ op = "none"
    /\ \E k \in CacheKeys :
        /\ op' = "SnowflakeCache.get"
        /\ args' = [key |-> k, now |-> now, stored |-> cache_table[k]]
        /\ ret' = Return(SnowflakeCache_get(cache_table, k, None, now))
    /\ UNCHANGED <<filtered_contents, search_history, first_ret, cacheVars, taskVars>>

\* _get_document_contents in session p, lines 215-216: the read of the cache
LoaderGet(p) ==
    /\ loaders[p].at = "idle"
    /\ LET cached_contents == SnowflakeCache_get(cache_table, "document_contents", None, now)
       IN  loaders' = [loaders EXCEPT ![p] =
                          IF cached_contents = None
                          THEN [at |-> "miss", contents |-> None]
                          ELSE [at |-> "hit", contents |-> cached_contents]]
    /\ UNCHANGED <<op, args, ret, filtered_contents, search_history, first_ret,
                   session_cache, cache_table, now, taskVars>>

\* line 220: the load after a miss
LoaderLoad(p) ==
    /\ loaders[p].at = "miss"
    /\ loaders' = [loaders EXCEPT ![p] = [at |-> "loaded", contents |-> _load_document_contents]]
    /\ UNCHANGED <<op, args, ret, filtered_contents, search_history, first_ret,
                   session_cache, cache_table, now, taskVars>>

\* lines 221-222: the loaded contents are written to the cache and returned
LoaderSet(p) ==
    /\ loaders[p].at = "loaded"
    /\ cache_table' = SnowflakeCache_set(cache_table, "document_contents",
                                         loaders[p].contents, ContentsTtl, now).table
    /\ loaders' = [loaders EXCEPT ![p].at = "stored"]
    /\ UNCHANGED <<op, args, ret, filtered_contents, search_history, first_ret,
                   session_cache, now, taskVars>>

\* the session has used the contents and may ask for them again
LoaderReturn(p) ==
    /\ loaders[p].at \in {"hit", "stored"}
    /\ loaders' = [loaders EXCEPT ![p] = [at |-> "idle", contents |-> None]]
    /\ UNCHANGED <<op, args, ret, filtered_contents, search_history, first_ret,
                   session_cache, cache_table, now, taskVars>>

NextCache ==
    \/ Tick \/ SessionSetCall \/ SessionGetCall \/ SessionClearExpiredCall \/ CachedCall
    \/ SnowflakeSetCall \/ SnowflakeGetCall
    \/ \E p \in Sessions : LoaderGet(p)
    \/ \E p \in Sessions : LoaderLoad(p)
    \/ \E p \in Sessions : LoaderSet(p)
    \/ \E p \in Sessions : LoaderReturn(p)
    \/ Done

\* the two caches, the clock, and two sessions loading the document contents
SpecCache == Init /\ [][NextCache]_vars

\* --------------------------------------------------------- the AsyncTaskManager
\* One script thread calls run_task, cancel_task and get_task_status; every submitted
\* _run_with_progress runs on a thread of the executor (max_workers = 4). A step is
\* one line of the source: the threads interleave between lines.
nonTaskVars == <<filtered_contents, search_history, first_ret, cacheVars>>

\* executor.submit: a Future for task_id, not yet picked up by a worker.
\*   at         where its worker is: "pending", inside func ("func"), inside
\*              update_progress between the lookup of the bar and the call of
\*              .progress ("update"), at line 105 ("final"), at line 110 ("except"),
\*              at a line of _cleanup_task ("125".."128"), "done", or "cancelled"
\*   bar        the bar update_progress looked up, 0 when it holds none
\*   outcome    what Future.result() gives once done: "completed" or "error"
\*   cancelled  cancel_task returned True for it
\*   late       its function updated a progress bar after that
Future(task_id) ==
    [task_id |-> task_id, at |-> "pending", bar |-> 0, outcome |-> "",
     cancelled |-> FALSE, late |-> FALSE]

\* Future.done()
FutureDone(future) == future.at \in {"done", "cancelled"}

\* Future.cancel(): only a call no worker has picked up is cancelled
FutureCancel(future) ==
    IF future.at = "pending" THEN [future EXCEPT !.at = "cancelled"] ELSE future

\* run_task with the bar of lines 60-61 made before the test of line 56: a faulty
\* variant, C29 must reject it
RunTaskBarFirst ==
    /\ op = "none"
    /\ pc = "idle"
    /\ \E task_id \in TaskIds :
        /\ op' = "run_task"
        /\ args' = [task_id |-> task_id, future |-> 0]
        /\ IF tasks[task_id] # None
           THEN /\ bars' = Append(bars, "0")
                /\ progress_bars' = [progress_bars EXCEPT ![task_id] = Some(Len(bars) + 1)]
                /\ ret' = Raise("ValueError")
                /\ pc' = "idle"
           ELSE /\ Len(futures) < MaxTasks
                /\ ret' = ReturnNone
                /\ pc' = "60"
                /\ UNCHANGED <<progress_bars, bars>>
    /\ UNCHANGED <<tasks, futures, nonTaskVars>>

\* run_task, lines 56-57: a registered task_id is refused
RunTaskCheck ==
    /\ op = "none"
    /\ pc = "idle"
    /\ \E task_id \in TaskIds :
        /\ op' = "run_task"
        /\ args' = [task_id |-> task_id, future |-> 0]
        /\ IF tasks[task_id] # None
           THEN /\ ret' = Raise("ValueError")
                /\ pc' = "idle"
           ELSE /\ Len(futures) < MaxTasks
                /\ ret' = ReturnNone
                /\ pc' = "60"
    /\ UNCHANGED <<tasks, progress_bars, futures, bars, nonTaskVars>>

\* run_task, lines 60-61: the bar is created at 0 and stored
RunTaskBar ==
    /\ op = "run_task"
    /\ pc = "60"
    /\ bars' = Append(bars, "0")
    /\ progress_bars' = [progress_bars EXCEPT ![args.task_id] = Some(Len(bars) + 1)]
    /\ pc' = "64"
    /\ UNCHANGED <<op, args, ret, tasks, futures, nonTaskVars>>

\* run_task, line 64: executor.submit
RunTaskSubmit ==
    /\ op = "run_task"
    /\ pc = "64"
    /\ futures' = Append(futures, Future(args.task_id))
    /\ args' = [args EXCEPT !.future = Len(futures) + 1]
    /\ pc' = "65"
    /\ UNCHANGED <<op, ret, tasks, progress_bars, bars, nonTaskVars>>

\* run_task, line 65: the Future is registered
RunTaskRegister ==
    /\ op = "run_task"
    /\ pc = "65"
    /\ tasks' = [tasks EXCEPT ![args.task_id] = Some(args.future)]
    /\ ret' = Return(None)
    /\ pc' = "idle"
    /\ UNCHANGED <<op, args, progress_bars, futures, bars, nonTaskVars>>

\* get_task_status, lines 144-145
GetTaskStatusCheck ==
    /\ op = "none"
    /\ pc = "idle"
    /\ \E task_id \in TaskIds :
        /\ op' = "get_task_status"
        /\ args' = [task_id |-> task_id, future |-> 0]
        /\ IF tasks[task_id] = None
           THEN /\ ret' = Return("not_found")
                /\ pc' = "idle"
           ELSE /\ ret' = ReturnNone
                /\ pc' = "147"
    /\ UNCHANGED <<tasks, progress_bars, futures, bars, nonTaskVars>>

\* get_task_status, lines 147-161
GetTaskStatusRead ==
    /\ op = "get_task_status"
    /\ pc = "147"
    /\ ret' = IF tasks[args.task_id] = None
              THEN Raise("KeyError")
              ELSE LET future == futures[tasks[args.task_id][1]]
                   IN  IF FutureDone(future) THEN Return(future.outcome)
                       ELSE Return("running")
    /\ pc' = "idle"
    /\ UNCHANGED <<op, args, tasks, progress_bars, futures, bars, nonTaskVars>>

\* cancel_task, line 177
CancelTaskCheck ==
    /\ op = "none"
    /\ pc = "idle"
    /\ \E task_id \in TaskIds :
        /\ op' = "cancel_task"
        /\ args' = [task_id |-> task_id, future |-> 0]
        /\ IF tasks[task_id] = None
           THEN /\ ret' = Return(FALSE)
                /\ pc' = "idle"
           ELSE /\ ret' = ReturnNone
                /\ pc' = "178"
    /\ UNCHANGED <<tasks, progress_bars, futures, bars, nonTaskVars>>

\* cancel_task, line 178: future = self.tasks[task_id]
CancelTaskRead ==
    /\ op = "cancel_task"
    /\ pc = "178"
    /\ IF tasks[args.task_id] = None
       THEN /\ ret' = Raise("KeyError")
            /\ pc' = "idle"
            /\ UNCHANGED args
       ELSE /\ args' = [args EXCEPT !.future = tasks[args.task_id][1]]
            /\ pc' = "179"
            /\ UNCHANGED ret
    /\ UNCHANGED <<op, tasks, progress_bars, futures, bars, nonTaskVars>>

\* cancel_task, line 179: if not future.done()
CancelTaskDone ==
    /\ op = "cancel_task"
    /\ pc = "179"
    /\ IF FutureDone(futures[args.future])
       THEN /\ ret' = Return(FALSE)
            /\ pc' = "idle"
       ELSE /\ pc' = "180"
            /\ UNCHANGED ret
    /\ UNCHANGED <<op, args, tasks, progress_bars, futures, bars, nonTaskVars>>

\* cancel_task, line 180: future.cancel()
CancelTaskCancel ==
    /\ op = "cancel_task"
    /\ pc = "180"
    /\ futures' = [futures EXCEPT ![args.future] = FutureCancel(@)]
    /\ pc' = "125"
    /\ UNCHANGED <<op, args, ret, tasks, progress_bars, bars, nonTaskVars>>

\* cancel_task, line 181: _cleanup_task line 125, if task_id in self.tasks
CancelTaskCleanup125 ==
    /\ op = "cancel_task"
    /\ pc = "125"
    /\ pc' = IF tasks[args.task_id] # None THEN "126" ELSE "127"
    /\ UNCHANGED <<op, args, ret, tasks, progress_bars, futures, bars, nonTaskVars>>

\* _cleanup_task line 126: del self.tasks[task_id]
CancelTaskCleanup126 ==
    /\ op = "cancel_task"
    /\ pc = "126"
    /\ IF tasks[args.task_id] = None
       THEN /\ ret' = Raise("KeyError")
            /\ pc' = "idle"
            /\ UNCHANGED tasks
       ELSE /\ tasks' = [tasks EXCEPT ![args.task_id] = None]
            /\ pc' = "127"
            /\ UNCHANGED ret
    /\ UNCHANGED <<op, args, progress_bars, futures, bars, nonTaskVars>>

\* _cleanup_task lines 127-128 when the bar is there at 127, and line 182: return True
CancelTaskCleanup127 ==
    /\ op = "cancel_task"
    /\ pc = "127"
    /\ IF progress_bars[args.task_id] # None
       THEN /\ pc' = "128"
            /\ UNCHANGED <<ret, futures>>
       ELSE /\ ret' = Return(TRUE)
            /\ pc' = "idle"
            /\ futures' = [futures EXCEPT ![args.future].cancelled = TRUE]
    /\ UNCHANGED <<op, args, tasks, progress_bars, bars, nonTaskVars>>

\* _cleanup_task line 128: del self.progress_bars[task_id], and line 182: return True
CancelTaskCleanup128 ==
    /\ op = "cancel_task"
    /\ pc = "128"
    /\ IF progress_bars[args.task_id] = None
       THEN /\ ret' = Raise("KeyError")
            /\ UNCHANGED <<progress_bars, futures>>
       ELSE /\ progress_bars' = [progress_bars EXCEPT ![args.task_id] = None]
            /\ ret' = Return(TRUE)
            /\ futures' = [futures EXCEPT ![args.future].cancelled = TRUE]
    /\ pc' = "idle"
    /\ UNCHANGED <<op, args, tasks, bars, nonTaskVars>>

\* a worker of the executor picks the call up: _run_with_progress lines 94-102
WorkerStart(f) ==
    /\ futures[f].at = "pending"
    /\ futures' = [futures EXCEPT ![f].at = "func"]
    /\ UNCHANGED <<op, args, ret, pc, tasks, progress_bars, bars, nonTaskVars>>

\* func calls progress_callback: line 98, self.progress_bars[task_id]; a missing key
\* is a KeyError that leaves func
WorkerLookup(f) ==
    /\ futures[f].at = "func"
    /\ LET task_id == futures[f].task_id
       IN  futures' = [futures EXCEPT ![f] =
                          IF progress_bars[task_id] = None
                          THEN [@ EXCEPT !.at = "except"]
                          ELSE [@ EXCEPT !.at = "update", !.bar = progress_bars[task_id][1]]]
    /\ UNCHANGED <<op, args, ret, pc, tasks, progress_bars, bars, nonTaskVars>>

\* line 98, .progress(progress) on the bar that was looked up
WorkerProgress(f) ==
    /\ futures[f].at = "update"
    /\ bars' = [bars EXCEPT ![futures[f].bar] = "step"]
    /\ futures' = [futures EXCEPT ![f] =
                      [@ EXCEPT !.at = "func", !.bar = 0, !.late = @ \/ futures[f].cancelled]]
    /\ UNCHANGED <<op, args, ret, pc, tasks, progress_bars, nonTaskVars>>

\* line 102: func returns, or raises
WorkerFuncEnds(f) ==
    /\ futures[f].at = "func"
    /\ \E at \in {"final", "except"} :
        futures' = [futures EXCEPT ![f].at = at]
    /\ UNCHANGED <<op, args, ret, pc, tasks, progress_bars, bars, nonTaskVars>>

\* line 105: the bar is set to 100%; a missing bar is a KeyError inside the try
WorkerFinal(f) ==
    /\ futures[f].at = "final"
    /\ LET task_id == futures[f].task_id
       IN  IF progress_bars[task_id] = None
           THEN /\ futures' = [futures EXCEPT ![f].at = "except"]
                /\ UNCHANGED bars
           ELSE /\ bars' = [bars EXCEPT ![progress_bars[task_id][1]] = "1.0"]
                /\ futures' = [futures EXCEPT ![f] =
                                  [@ EXCEPT !.at = "125", !.outcome = "completed"]]
    /\ UNCHANGED <<op, args, ret, pc, tasks, progress_bars, nonTaskVars>>

\* lines 108-111: the bar shows the error and the exception is raised again; a
\* missing bar is a KeyError raised in its place
WorkerExcept(f) ==
    /\ futures[f].at = "except"
    /\ LET task_id == futures[f].task_id
       IN  bars' = IF progress_bars[task_id] = None THEN bars
                   ELSE [bars EXCEPT ![progress_bars[task_id][1]] = "error"]
    /\ futures' = [futures EXCEPT ![f] = [@ EXCEPT !.at = "125", !.outcome = "error"]]
    /\ UNCHANGED <<op, args, ret, pc, tasks, progress_bars, nonTaskVars>>

\* finally, line 114: _cleanup_task line 125
WorkerCleanup125(f) ==
    /\ futures[f].at = "125"
    /\ futures' = [futures EXCEPT ![f].at =
                      IF tasks[futures[f].task_id] # None THEN "126" ELSE "127"]
    /\ UNCHANGED <<op, args, ret, pc, tasks, progress_bars, bars, nonTaskVars>>

\* _cleanup_task line 126; a KeyError here ends the call
WorkerCleanup126(f) ==
    /\ futures[f].at = "126"
    /\ LET task_id == futures[f].task_id
       IN  IF tasks[task_id] = None
           THEN /\ futures' = [futures EXCEPT ![f] =
                                  [@ EXCEPT !.at = "done", !.outcome = "error"]]
                /\ UNCHANGED tasks
           ELSE /\ tasks' = [tasks EXCEPT ![task_id] = None]
                /\ futures' = [futures EXCEPT ![f].at = "127"]
    /\ UNCHANGED <<op, args, ret, pc, progress_bars, bars, nonTaskVars>>

\* _cleanup_task line 127; without a bar the call is over
WorkerCleanup127(f) ==
    /\ futures[f].at = "127"
    /\ futures' = [futures EXCEPT ![f].at =
                      IF progress_bars[futures[f].task_id] # None THEN "128" ELSE "done"]
    /\ UNCHANGED <<op, args, ret, pc, tasks, progress_bars, bars, nonTaskVars>>

\* _cleanup_task line 128, and the call is over
WorkerCleanup128(f) ==
    /\ futures[f].at = "128"
    /\ LET task_id == futures[f].task_id
       IN  IF progress_bars[task_id] = None
           THEN /\ futures' = [futures EXCEPT ![f] =
                                  [@ EXCEPT !.at = "done", !.outcome = "error"]]
                /\ UNCHANGED progress_bars
           ELSE /\ progress_bars' = [progress_bars EXCEPT ![task_id] = None]
                /\ futures' = [futures EXCEPT ![f].at = "done"]
    /\ UNCHANGED <<op, args, ret, pc, tasks, bars, nonTaskVars>>

NextTasks ==
    \/ RunTaskCheck \/ RunTaskBar \/ RunTaskSubmit \/ RunTaskRegister
    \/ GetTaskStatusCheck \/ GetTaskStatusRead
    \/ CancelTaskCheck \/ CancelTaskRead \/ CancelTaskDone \/ CancelTaskCancel
    \/ CancelTaskCleanup125 \/ CancelTaskCleanup126 \/ CancelTaskCleanup127
    \/ CancelTaskCleanup128
    \/ \E f \in 1..Len(futures) : WorkerStart(f)
    \/ \E f \in 1..Len(futures) : WorkerLookup(f)
    \/ \E f \in 1..Len(futures) : WorkerProgress(f)
    \/ \E f \in 1..Len(futures) : WorkerFuncEnds(f)
    \/ \E f \in 1..Len(futures) : WorkerFinal(f)
    \/ \E f \in 1..Len(futures) : WorkerExcept(f)
    \/ \E f \in 1..Len(futures) : WorkerCleanup125(f)
    \/ \E f \in 1..Len(futures) : WorkerCleanup126(f)
    \/ \E f \in 1..Len(futures) : WorkerCleanup127(f)
    \/ \E f \in 1..Len(futures) : WorkerCleanup128(f)
    \/ Done

\* the task manager of one session: the script thread and the workers
SpecTasks == Init /\ [][NextTasks]_vars

\* ------------------------------------------------------------------- claims
Returned == ret.status = "return"
ListCalls == {"_merge_search_results", "hybrid_search", "search_documents", "search"}
SupportedTypes == {"hybrid", "vector", "keyword"}

KeysOf(list) == { ResultKey(list[i]) : i \in 1..Len(list) }
Occurrences(list, key) == { i \in 1..Len(list) : ResultKey(list[i]) = key }

\* C1: a call with top_n = k of _merge_search_results, hybrid_search,
\* search_documents (hybrid, vector or keyword) or search returns at most k results.
C1_AtMostTopN ==
    (op \in ListCalls /\ Returned
        /\ (op = "search_documents" => args.search_type \in SupportedTypes))
    => Len(ret.results) <= args.top_n

\* C1 witness: a merge of more distinct pages than top_n returned exactly top_n.
C1_Witness ==
    /\ op = "_merge_search_results"
    /\ Cardinality(KeysOf(args.vector_results \o args.keyword_results)) > args.top_n
    /\ Len(ret.results) = args.top_n

\* C2 (as claimed): every result of a returned list carries a normalized_score in
\* [0, 1] that is the clamp of its own score, also when it has no score field.
C2_Claim ==
    (op \in ListCalls /\ Returned
        /\ (op = "search_documents" => args.search_type \in SupportedTypes))
    => \A i \in 1..Len(ret.results) :
          /\ ret.results[i].normalized_score # None
          /\ ret.results[i].normalized_score[1] \in 0..100
          /\ ret.results[i].score # None =>
                 ret.results[i].normalized_score[1] = Clamp(ret.results[i].score[1])

\* C3: no two results of a merged list share (file_name, page).
C3_NoDuplicateKeys ==
    (op \in {"_merge_search_results", "hybrid_search"} /\ Returned)
    => \A i, j \in 1..Len(ret.results) :
          i # j => ResultKey(ret.results[i]) # ResultKey(ret.results[j])

\* C3 witness: an input list that repeats a page was merged into a list holding it.
C3_Witness ==
    /\ op = "_merge_search_results"
    /\ \E key \in KeysOf(ret.results) :
          Cardinality(Occurrences(args.vector_results, key)) > 1

\* the pages found by both the vector and the keyword search
InBoth == KeysOf(args.vector_results) \cap KeysOf(args.keyword_results)
\* the first vector hit of a page, as the merge leaves it
VectorEntry(key) ==
    Normalize(args.vector_results[
        CHOOSE i \in Occurrences(args.vector_results, key) :
            \A j \in Occurrences(args.vector_results, key) : i <= j])

\* C4 (as claimed): a page found by both searches is in the merged list exactly once,
\* as the vector entry with the vector score.
C4_Claim ==
    op = "_merge_search_results" =>
        \A key \in InBoth :
            /\ Cardinality(Occurrences(ret.results, key)) = 1
            /\ \A i \in Occurrences(ret.results, key) : ret.results[i] = VectorEntry(key)

\* C4 (amended): such a page is in the merged list at most once, exactly once when
\* the distinct pages are no more than top_n, and its entry is the first vector one.
C4_VectorPrecedence ==
    op = "_merge_search_results" =>
        \A key \in InBoth :
            /\ Cardinality(Occurrences(ret.results, key)) <= 1
            /\ Cardinality(KeysOf(args.vector_results \o args.keyword_results))
                   <= args.top_n
                => Cardinality(Occurrences(ret.results, key)) = 1
            /\ \A i \in Occurrences(ret.results, key) : ret.results[i] = VectorEntry(key)

\* C4 witness: a page found by both, with different scores, survives the merge.
C4_Witness ==
    /\ op = "_merge_search_results"
    /\ \E key \in InBoth \cap KeysOf(ret.results) :
          \E i \in Occurrences(args.keyword_results, key) :
              /\ args.keyword_results[i].score # None
              /\ VectorEntry(key).score # None
              /\ args.keyword_results[i].score # VectorEntry(key).score

\* the metadata row of a chunk's document, and what a filters dict asks of a chunk
RowsOf(c) == { row \in args.env.document_metadata : row.file_name = c.file_name }
Satisfies(c, filters) ==
    \E row \in RowsOf(c) :
        /\ filters.date_range # None =>
               /\ filters.date_range[1][1] <= row.upload_date
               /\ row.upload_date <= filters.date_range[1][2]
        /\ filters.file_types # None => row.file_type \in filters.file_types[1]
        /\ filters.page_range # None =>
               /\ filters.page_range[1][1] <= c.page
               /\ c.page <= filters.page_range[1][2]
        /\ filters.tags # None =>
               /\ row.tags # None
               /\ row.tags[1] \cap filters.tags[1] # {}
        /\ filters.folders # None => row.folder_path \in filters.folders[1]

\* C5 (as claimed): in single mode with target document D, the working chunk set and
\* the returned results hold chunks of D only.
C5_Claim ==
    (op = "search" /\ args.mode = "single" /\ TruthyStr(args.target_document))
    => /\ \A i \in 1..Len(ret.results) :
              ret.results[i].file_name = args.target_document[1]
       /\ filtered_contents # None =>
              \A i \in 1..Len(filtered_contents[1]) :
                  filtered_contents[1][i].file_name = args.target_document[1]

\* C6 (as claimed): every chunk of the working set, and so every result, satisfies
\* every constraint of the filters the caller passed.
C6_Claim ==
    (op = "search" /\ args.filters # None /\ filtered_contents # None)
    => \A i \in 1..Len(filtered_contents[1]) :
          Satisfies(filtered_contents[1][i], args.filters[1])

\* C7 (as claimed, whatever the type of the error): single mode with an absent or
\* unknown target fails, before any retrieval and with no history row written.
C7_Claim ==
    (op = "search" /\ args.mode = "single"
        /\ (~TruthyStr(args.target_document) \/ args.target_document[1] \notin Files))
    => /\ ret.status = "raise"
       /\ filtered_contents = None
       /\ search_history = <<>>

\* C8 (as claimed, whatever the type of the error): a search over a non-empty corpus
\* with a search_type the entry point does not know fails; it returns no list.
C8_Claim ==
    /\ (op = "search" /\ SearchTypeOf(args.search_options) \notin SupportedTypes)
        => ret.status = "raise"
    /\ (op = "search_documents" /\ args.pdf_contents # <<>>
            /\ args.search_type \notin SupportedTypes \cup {"tables_figures"})
        => ret.status = "raise"

\* C9 (as claimed): a failing history INSERT is never surfaced by search.
C9_Claim ==
    (op = "search" /\ args.save_history /\ ~args.env.history_ok)
    => ~(ret.status = "raise" /\ ret.exc = "SnowparkSQLException")

\* C10 (as claimed): hybrid_search with the keyword branch enabled, on a non-empty
\* list of chunks, does not raise when the vector queries or the keyword query fail.
C10_Claim ==
    (op = "hybrid_search" /\ args.use_similar_terms /\ args.pdf_contents # <<>>
        /\ ({"index", "scan"} \subseteq args.env.faults \/ "fulltext" \in args.env.faults))
    => Returned

\* C11 (as claimed): an empty list returned by search_documents over a non-empty
\* corpus means that no chunk matched: the search type is a supported one, and a
\* keyword search that answers [] had no chunk containing the query.
C11_Claim ==
    (op = "search_documents" /\ Returned /\ ret.results = <<>>
        /\ args.pdf_contents # <<>>)
    => /\ args.search_type \in SupportedTypes \cup {"tables_figures"}
       /\ args.search_type = "keyword"
            => \A i \in 1..Len(args.pdf_contents) : Query \notin args.pdf_contents[i].words

\* C12 (as claimed): a search repeated with identical arguments against an unchanged
\* corpus returns the same list in the same order as the first time.
C12_Claim ==
    (op \in {"hybrid_search again", "search again"}
        /\ Returned /\ first_ret.status = "return")
    => ret.results = first_ret.results

\* C13 (as claimed): a hybrid search runs the vector retrieval and the keyword
\* matching over the chunks, each bounded by top_n, and returns the merge of the two
\* lists, whatever the synonym flag; SearchService.search with search_type hybrid
\* over a working chunk set returns such a list.
C13_Claim ==
    /\ (op = "search" /\ SearchTypeOf(args.search_options) = "hybrid"
            /\ filtered_contents # None)
        => Returned
    /\ (op = "hybrid_search" /\ Returned /\ args.env.faults = {})
        => \E v \in find_relevant_chunks(embed_text(Query, args.env),
                                         Some(args.pdf_contents), args.top_n,
                                         args.threshold, TRUE, args.env),
              k \in _keyword_search(Query, Some(args.pdf_contents), args.top_n,
                                    args.env) :
               ret.results = _merge_search_results(v.results, k.results, args.top_n)

\* the chunks of a find_relevant_chunks call whose similarity reaches th
Reaching(th) ==
    SelectSeq(args.pdf_contents,
              LAMBDA c : Similarity(args.query_embedding, c) >= th)

\* the threshold the caller asked for: the supplied one, the default when none
RequestedThreshold ==
    IF args.threshold = None THEN SIMILARITY_THRESHOLD ELSE args.threshold[1]

\* C14 (as claimed): find_relevant_chunks returns only chunks whose similarity
\* reaches the supplied threshold (0.0 included; the default only when none is
\* supplied) and as many of them as top_n allows; when no query fails and no chunk
\* reaches the threshold it returns the empty list.
C14_Claim ==
    /\ (op = "find_relevant_chunks" /\ Returned)
        => /\ \A i \in 1..Len(ret.results) : ret.results[i].score[1] >= RequestedThreshold
           /\ Len(ret.results) = Min2(args.top_n, Len(Reaching(RequestedThreshold)))
    /\ (op = "find_relevant_chunks" /\ args.env.faults = {}
            /\ Reaching(RequestedThreshold) = <<>>)
        => Returned /\ ret.results = <<>>

\* the concatenation a _merge_search_results call works on
Concatenation == args.vector_results \o args.keyword_results
\* where a (file_name, page) first occurs in it
FirstIndex(key) ==
    CHOOSE i \in Occurrences(Concatenation, key) :
        \A j \in Occurrences(Concatenation, key) : i <= j
\* the entry at position i of the concatenation ranks ahead of the one at j
RanksAhead(i, j) ==
    LET ki == NormKey(Normalize(Concatenation[i]))
        kj == NormKey(Normalize(Concatenation[j]))
    IN  ki > kj \/ (ki = kj /\ i < j)

\* C15: the list _merge_search_results returns holds the first occurrences of the
\* (file_name, page) pairs ordered by normalized_score descending, equal scores in
\* the order of the concatenation vector_results + keyword_results, and it is the
\* first top_n entries of that ordering.
C15_StableOrder ==
    op = "_merge_search_results" =>
        LET out == ret.results
            missing == KeysOf(Concatenation) \ KeysOf(out)
        IN  /\ Len(out) = Min2(args.top_n, Cardinality(KeysOf(Concatenation)))
            /\ \A a \in 1..Len(out) :
                   out[a] = Normalize(Concatenation[FirstIndex(ResultKey(out[a]))])
            /\ \A a, b \in 1..Len(out) :
                   a < b => RanksAhead(FirstIndex(ResultKey(out[a])),
                                       FirstIndex(ResultKey(out[b])))
            /\ \A a \in 1..Len(out), k \in missing :
                   RanksAhead(FirstIndex(ResultKey(out[a])), FirstIndex(k))

\* a merge that returned two results of equal normalized_score, the first from the
\* vector list and the second from the keyword list
C15_Witness ==
    /\ op = "_merge_search_results"
    /\ Len(ret.results) >= 2
    /\ NormKey(ret.results[1]) = NormKey(ret.results[2])
    /\ ret.results[1].type = None
    /\ ret.results[2].type = Some("keyword")

\* the chunks that pass the filter of a find_relevant_chunks call, by similarity
\* descending, chunks of equal similarity in corpus order
CorpusOrdered ==
    LET rows == Reaching(EffectiveThreshold(args.threshold))
    IN  SortDesc(rows, [i \in 1..Len(rows) |-> Similarity(args.query_embedding, rows[i])])

\* C16 (as claimed): find_relevant_chunks returns the first top_n chunks of the
\* ordering by similarity descending with ties in corpus order, on the index path
\* and on the full-scan path.
C16_Claim ==
    (op = "find_relevant_chunks" /\ Returned)
    => /\ Len(ret.results) = Min2(args.top_n, Len(CorpusOrdered))
       /\ \A i \in 1..Len(ret.results) :
              /\ ret.results[i].file_name = CorpusOrdered[i].file_name
              /\ ret.results[i].page = CorpusOrdered[i].page
              /\ ret.results[i].score =
                     Some(Similarity(args.query_embedding, CorpusOrdered[i]))

\* what the find_relevant_chunks call at hand can answer when made with
\* use_index = False
WithoutIndex ==
    find_relevant_chunks(args.query_embedding, Some(args.pdf_contents), args.top_n,
                         args.threshold, FALSE, args.env)

IndexFailed == op = "find_relevant_chunks" /\ args.use_index /\ "index" \in args.env.faults

C18_Claim ==
    (op = "calculate_similarity" /\ ~args.remote /\ Len(args.vec1) = Len(args.vec2))
    => /\ Returned
       /\ ret.results =
              IF NormSq(args.vec1) = 0 \/ NormSq(args.vec2) = 0 THEN Zero
              ELSE Quotient(Dot(args.vec1, args.vec2),
                            NormSq(args.vec1) * NormSq(args.vec2))

\* the list holds at most n terms and none is the query in another case
WithinLimitAndFiltered(terms, n) ==
    /\ Len(terms) <= n
    /\ \A i \in 1..Len(terms) : Lower(terms[i]) # Lower(Query)

\* C19: generate_similar_terms(query, num_terms) returns at most num_terms terms,
\* none equal to the query case-insensitively, whatever the completion answers
\* (JSON or comma-separated text); the same holds of what the parsing of lines
\* 237-249 makes of that answer.
C19_AtMostNumTermsNoQuery ==
    op = "generate_similar_terms" =>
        /\ Returned
        /\ WithinLimitAndFiltered(ret.results, args.num_terms)
        /\ args.env.response # None =>
               WithinLimitAndFiltered(
                   ParseSimilarTerms(args.env.response[1], Query, args.num_terms),
                   args.num_terms)

\* a call whose completion answered more pieces than num_terms, one of them the
\* query in another case, as comma-separated text
C19_Witness ==
    /\ op = "generate_similar_terms"
    /\ args.env.response # None
    /\ args.env.response[1].format = "text"
    /\ Len(args.env.response[1].terms) > args.num_terms
    /\ \E i \in 1..Len(args.env.response[1].terms) :
           Lower(Strip(args.env.response[1].terms[i])) = Lower(Query)
    /\ Returned

\* C20: when the completion call fails, generate_similar_terms returns the empty
\* list and raises nothing, the expanded query holds the original term and no
\* other, and the keyword search goes on with it: it returns, and what it returns
\* are chunks that contain the query, matched on the query alone.
C20_ExpansionFailureDegrades ==
    /\ (op = "generate_similar_terms" /\ args.env.response = None)
        => Returned /\ ret.results = <<>>
    /\ (op = "_expand_query_with_similar_terms" /\ args.env.response = None)
        => Returned /\ ret.results = {Query}
    /\ (op = "_keyword_search" /\ args.env.response = None)
        => /\ Returned
           /\ \A i \in 1..Len(ret.results) : ret.results[i].matched_terms = Some({Query})
           /\ "fulltext" \notin args.env.faults
                => Len(ret.results) =
                       Min2(args.top_n,
                            Len(SelectSeq(args.pdf_contents, LAMBDA c : Query \in c.words)))

\* the completion failed and the keyword search still found a chunk
C20_Witness ==
    /\ op = "_keyword_search"
    /\ args.env.response = None
    /\ Returned
    /\ ret.results # <<>>

\* the raw response split on commas: pieces trimmed, the empty ones and the query
\* (in any case) removed, the first n kept
CommaSplit(pieces, n) ==
    Slice(SelectSeq([i \in 1..Len(pieces) |-> Strip(pieces[i])],
                    LAMBDA t : t # "" /\ Lower(t) # Lower(Query)), n)

\* C21 (as claimed): when the completion's answer is not JSON of the expected
\* shape, generate_similar_terms returns the terms obtained by splitting the raw
\* response on commas, and raises nothing.
C21_Claim ==
    (op = "generate_similar_terms" /\ args.env.response # None
        /\ args.env.response[1].format # "json")
    => /\ Returned
       /\ ret.results = CommaSplit(args.env.response[1].terms, args.num_terms)

\* the chunks of a _keyword_search call whose text contains the query
Containing == SelectSeq(args.pdf_contents, LAMBDA c : Query \in c.words)

\* C22 (as claimed): with no similar term in play, a keyword search whose query
\* runs returns up to top_n of the chunks that contain the query and no other
\* chunk, by score descending, each with a score in (0,1] and with the query among
\* its matched_terms.
C22_Claim ==
    (op = "_keyword_search" /\ Returned /\ "fulltext" \notin args.env.faults)
    => /\ Len(ret.results) = Min2(args.top_n, Len(Containing))
       /\ \A i \in 1..Len(ret.results) :
              /\ \E j \in 1..Len(Containing) :
                     /\ Containing[j].file_name = ret.results[i].file_name
                     /\ Containing[j].page = ret.results[i].page
              /\ ret.results[i].score # None
              /\ ret.results[i].score[1] > 0
              /\ ret.results[i].score[1] <= 100
              /\ ret.results[i].matched_terms # None
              /\ Query \in ret.results[i].matched_terms[1]
       /\ \A i, j \in 1..Len(ret.results) :
              i < j => ret.results[i].score[1] >= ret.results[j].score[1]

\* the filters a search call ran with, as the history stores them: those of the
\* call, with file_names = [target] added in single mode with a target, {} for none
RanWithFilters(a) ==
    LET own == IF a.filters = None THEN EmptyDict ELSE a.filters[1]
    IN  IF a.mode = "single" /\ a.target_document \notin {None, Some("")}
        THEN [own EXCEPT !.file_names = Some({a.target_document[1]})]
        ELSE own

C24_Claim ==
    op \in {"search", "search again"} =>
        /\ filtered_contents # None =>
               \A i \in 1..Len(filtered_contents[1]) :
                   \E j \in 1..Len(args.env.cached[1]) :
                       filtered_contents[1][i] = args.env.cached[1][j]
        /\ args.filters_after = args.filters

\* C25: no cache entry is served past its time-to-live: every entry written through
\* set carries an expiry, in the session cache and in the cache table, and a get
\* issued at or after the expiry of the entry it finds returns the default (None).
C25_Claim ==
    /\ \A k \in CacheKeys :
        /\ session_cache[k] # None => session_cache[k][1].expires_at # None
        /\ cache_table[k] # None => cache_table[k][1].expires_at # None
    /\ (/\ op \in {"SessionCache.get", "SnowflakeCache.get"}
        /\ args.stored # None
        /\ args.stored[1].expires_at # None
        /\ args.stored[1].expires_at[1] <= args.now)
       => ret.results = None

\* C26: concurrent cache writes for one key are last-writer-wins: once both sessions
\* have stored what they loaded for "document_contents", and after any set call, the
\* cache holds one entry for the key with a value one of the writers passed, and a
\* get made at the time of a set call returns the value of that call.
C26_Claim ==
    /\ (\A p \in Sessions : loaders[p].at = "stored")
       => /\ cache_table["document_contents"] # None
          /\ \E p \in Sessions :
                cache_table["document_contents"][1].value = loaders[p].contents
    /\ op = "SnowflakeCache.set"
       => /\ cache_table[args.key] # None
          /\ cache_table[args.key][1].value = args.value
          /\ SnowflakeCache_get(cache_table, args.key, None, args.now) = args.value
    /\ op = "SessionCache.set"
       => /\ session_cache[args.key] # None
          /\ session_cache[args.key][1].value = args.value
          /\ SessionCache_get(session_cache, args.key, None, args.now).value = args.value

\* C27: once a task's function has finished, normally or by exception, so that its
\* Future is done, that Future is not registered in tasks and its bar is not in
\* progress_bars: a finished task never stays registered.
C27_Claim ==
    \A f \in 1..Len(futures) :
        futures[f].at = "done"
        => /\ tasks[futures[f].task_id] # Some(f)
           /\ progress_bars[futures[f].task_id] # Some(f)

\* C28: cancel_task returns True or False and never raises; when it has returned
\* True the task_id is in neither tasks nor progress_bars (get_task_status would
\* report not_found), and no function updates a progress bar after cancel_task
\* returned True for it.
C28_Claim ==
    /\ (op = "cancel_task" /\ pc = "idle")
       => /\ ret.status = "return"
          /\ ret.results = TRUE
             => /\ tasks[args.task_id] = None
                /\ progress_bars[args.task_id] = None
    /\ \A f \in 1..Len(futures) : ~futures[f].late

\* C29: run_task entered with a task_id that is registered in tasks raises
\* ValueError at once: nothing is submitted, no bar is created, and tasks and
\* progress_bars are as they were.
C29_RegisteredIdRefused ==
    [][ (op = "none" /\ op' = "run_task" /\ tasks[args'.task_id] # None)
        => /\ ret' = Raise("ValueError")
           /\ pc' = "idle"
           /\ UNCHANGED <<tasks, progress_bars, futures, bars>> ]_vars

\* run_task has just refused the id of a task whose function is still running
C29_Witness ==
    /\ op = "run_task"
    /\ ret = Raise("ValueError")
    /\ tasks[args.task_id] # None
    /\ futures[tasks[args.task_id][1]].at = "func"

====
